---------------------------- MODULE Spec2Model ----------------------------
(***************************************************************************)
(* The in-memory source chain of hc_core (source_chain/memory/mod.rs):     *)
(* a Vec of Pairs kept most-recent-first, with push, validate, get,        *)
(* get_entry and iter, its two IntoIterator impls and its derived Clone;   *)
(* and the running flag of the nodejs container's Habitat                  *)
(* (nodejs_container/native/src/habitat.rs).                               *)
(*                                                                         *)
(* Entry, Header and Pair live in common::entry and source_chain, which    *)
(* are not part of the sources at hand; they are modelled from the design  *)
(* document: content hashes are deterministic functions of the payload     *)
(* into a finite hash space (u64 in the program, 0..HashMod-1 here), and   *)
(* Pair validity is Header validity, Entry validity and the Header naming  *)
(* the hash of the Entry it accompanies.                                   *)
(***************************************************************************)
EXTENDS Naturals, Sequences, FiniteSets

VARIABLES pairs,     \* SourceChain.pairs: the chain, position 1 is the head
          accepted,  \* history: the pairs push has accepted, oldest first
          last,      \* the last call made: operation, argument, result
          copy,      \* a clone of the chain: None, or the buffer it lives in
          hab        \* the Habitat: is_running, its container, its callbacks

vars == <<pairs, accepted, last, copy, hab>>

(***************************************************************************)
(* Bounds of the model.                                                    *)
(***************************************************************************)
MaxLen == 3        \* pushes are accepted up to this chain length
NumContents == 3   \* entry payloads 0..NumContents-1
HashMod == 3       \* size of the hash space standing for u64
NumInstances == 2  \* instances the Habitat's container is configured with
MaxCallbacks == 2  \* register_callback calls that are followed
MaxCloneLen == 2   \* length a chain and its clone are pushed up to in SpecClone
MaxAnyLen == 2     \* length of the vectors validate is applied to in SpecAny

(***************************************************************************)
(* Option<T>: None is the empty sequence, Some(x) the one-element one.     *)
(***************************************************************************)
None == <<>>
Some(x) == <<x>>

Hashes == 0 .. (HashMod - 1)
Contents == 0 .. (NumContents - 1)
OptHashes == {None} \cup {Some(h) : h \in Hashes}

(***************************************************************************)
(* Entry, Header, Pair (modelled from the design document).                *)
(***************************************************************************)
Entries == [content : Contents]
Headers == [previous : OptHashes, entry : Hashes]
Pairs == [header : Headers, entry : Entries]

\* Entry::hash: a deterministic function of the payload into the hash space.
EntryHash(e) == (e.content * e.content + e.content + 1) % HashMod

\* Header::hash: a deterministic function of the header's fields.
HeaderHash(h) ==
    LET pv == IF h.previous = None THEN 0 ELSE h.previous[1] + 1
    IN  (2 * pv + h.entry + 1) % HashMod

\* Entry::validate: the application's rule, opaque to the chain; payload 0
\* stands for the payloads the application rejects.
EntryValidate(e) == e.content # 0

\* Header::validate: the previous reference is empty or a hash value.
HeaderValidate(h) == h.previous \in OptHashes

\* Pair::validate: header, entry, and the header describes this entry.
PairValidate(p) ==
    /\ HeaderValidate(p.header)
    /\ EntryValidate(p.entry)
    /\ p.header.entry = EntryHash(p.entry)

\* Header::new(previous, &entry) and Pair::new(&h, &e) as the tests' helper
\* test_pair uses them: the header names the entry's hash.
TestPair(previous_pair, c) ==
    LET e == [content |-> c]
        previous == IF previous_pair = None THEN None
                    ELSE Some(HeaderHash(previous_pair[1].header))
    IN  [header |-> [previous |-> previous, entry |-> EntryHash(e)], entry |-> e]

(***************************************************************************)
(* SourceChain (memory/mod.rs).                                            *)
(***************************************************************************)
\* SourceChain::new
New == <<>>

\* self.pairs.first()
First(chain) == IF chain = <<>> THEN None ELSE Some(chain[1])

\* Iterator::last instead of Iterator::next.
IterLast(m) == IF m = <<>> THEN None ELSE Some(m[Len(m)])

\* Iterator::next on a fresh iterator over the matches m of a filter.
IterNext(m) == IF m = <<>> THEN None ELSE Some(m[1])

\* A lookup that keeps the match farthest from the head.
GetLastMatch(chain, header_hash) ==
    LET m == SelectSeq(chain, LAMBDA p : HeaderHash(p.header) = header_hash)
    IN  IF m = <<>> THEN None ELSE Some(m[Len(m)])

\* A lookup that starts behind the head.
GetSkipHead(chain, header_hash) ==
    LET Test(p) == HeaderHash(p.header) = header_hash
    IN  IF chain = <<>> THEN None ELSE IterNext(SelectSeq(Tail(chain), Test))

\* SourceChain::get
Get(chain, header_hash) ==
    LET Test(p) == HeaderHash(p.header) = header_hash
    IN  IterNext(SelectSeq(chain, Test))

\* A lookup that keeps the match farthest from the head.
GetEntryLastMatch(chain, entry_hash) ==
    LET m == SelectSeq(chain, LAMBDA p : EntryHash(p.entry) = entry_hash)
    IN  IF m = <<>> THEN None ELSE Some(m[Len(m)])

\* SourceChain::get_entry
GetEntry(chain, entry_hash) ==
    LET Test(p) == EntryHash(p.entry) = entry_hash
    IN  IterNext(SelectSeq(chain, Test))

\* std::slice::Iter, collected: a cursor that walks the vector from index 0.
RECURSIVE SliceIterFrom(_, _)
SliceIterFrom(buf, pos) ==
    IF pos > Len(buf) THEN <<>>
    ELSE <<buf[pos]>> \o SliceIterFrom(buf, pos + 1)

\* std::vec::IntoIter, collected: takes the front element until none is left.
RECURSIVE VecIntoIter(_)
VecIntoIter(buf) ==
    IF buf = <<>> THEN <<>> ELSE <<Head(buf)>> \o VecIntoIter(Tail(buf))

\* A traversal from the genesis end, self.pairs.iter().rev().
RECURSIVE IterRev(_)
IterRev(chain) ==
    IF chain = <<>> THEN <<>> ELSE Append(IterRev(Tail(chain)), Head(chain))

\* SourceChain::iter, collected
Iter(chain) == SliceIterFrom(chain, 1)

\* IntoIterator for &SourceChain, collected
IntoIterRef(chain) == SliceIterFrom(chain, 1)

\* IntoIterator for SourceChain, collected
IntoIter(chain) == VecIntoIter(chain)

\* #[derive(Clone)] on SourceChain: Vec::clone clones every pair into a new
\* vector.
CloneChain(chain) == [i \in 1 .. Len(chain) |-> chain[i]]

\* SourceChain::validate: fold(true, |acc, p| acc && p.validate())
RECURSIVE Fold(_, _)
Fold(acc, s) ==
    IF s = <<>> THEN acc ELSE Fold(acc /\ PairValidate(Head(s)), Tail(s))

\* A fold that forgets the accumulator: |_, p| p.validate().
ValidateLastOnly(chain) ==
    IF chain = <<>> THEN TRUE ELSE PairValidate(chain[Len(chain)])

Validate(chain) == Fold(TRUE, chain)

\* A push that only asks for the previous hash to be found in the chain.
PushAcceptsAnyLinked(chain, pair) ==
    LET previous_pair == IF pair.header.previous # None
                         THEN Get(chain, pair.header.previous[1])
                         ELSE None
    IN  PairValidate(pair) /\ (chain = <<>> \/ previous_pair # None)

\* A push that compares with the genesis end, self.pairs.last().
PushAcceptsLast(chain, pair) ==
    LET previous_pair == IF pair.header.previous # None
                         THEN Get(chain, pair.header.previous[1])
                         ELSE None
        last_pair == IF chain = <<>> THEN None ELSE Some(chain[Len(chain)])
    IN  PairValidate(pair) /\ last_pair = previous_pair

\* A push that forgets pair.validate().
PushAcceptsNoValidate(chain, pair) ==
    LET previous_pair == IF pair.header.previous # None
                         THEN Get(chain, pair.header.previous[1])
                         ELSE None
    IN  First(chain) = previous_pair

\* The test push makes before it inserts (lines 39-44).
PushAccepts(chain, pair) ==
    LET previous_pair == IF pair.header.previous # None
                         THEN Get(chain, pair.header.previous[1])
                         ELSE None
    IN  PairValidate(pair) /\ First(chain) = previous_pair

\* An insert at the genesis end of the vector.
InsertAtEnd(chain, pair) == Append(chain, pair)

\* An insert that overwrites the head.
InsertOverHead(chain, pair) ==
    IF chain = <<>> THEN <<pair>> ELSE <<pair>> \o Tail(chain)

\* self.pairs.insert(0, pair.clone())
Insert0(chain, pair) == <<pair>> \o chain

\* A push that inserts first and checks afterwards.
PushResultInsertFirst(chain, pair) == Insert0(chain, pair)

\* The chain push leaves behind: the panic unwinds before the insert.
PushResult(chain, pair) ==
    IF PushAccepts(chain, pair) THEN Insert0(chain, pair) ELSE chain

\* A clone that shares the original's vector, as a reference-counted
\* backing store would.
CloneShared(chain) == [at |-> "shared", buf |-> <<>>]

\* chain.clone(): a SourceChain whose vector is its own, filled with clones
\* of the pairs. "at" says where the clone's pairs live: in a vector of its
\* own (buf), or in the vector of the chain it was cloned from.
Clone(chain) == [at |-> "own", buf |-> CloneChain(chain)]

(***************************************************************************)
(* Habitat (habitat.rs).                                                   *)
(***************************************************************************)
Instances == 1 .. NumInstances

\* JsHabitat::init, after it returned Ok: is_running is created true
\* (line 62), the configured instances are loaded and not yet started.
HabNew ==
    [is_running |-> TRUE,
     active |-> [i \in Instances |-> FALSE],
     callbacks |-> 0]

\* What start_all_instances (line 80) can leave behind: on Ok every instance
\* runs, on Err any of them may have been started before the failure.
StartAll(active, result) ==
    IF result = "ok"
    THEN {[i \in Instances |-> TRUE]}
    ELSE {a \in [Instances -> BOOLEAN] : \A i \in Instances : active[i] => a[i]}

\* What stop_all_instances (line 97) can leave behind: on Ok no instance
\* runs, on Err any of them may have been stopped before the failure.
StopAll(active, result) ==
    IF result = "ok"
    THEN {[i \in Instances |-> FALSE]}
    ELSE {a \in [Instances -> BOOLEAN] : \A i \in Instances : a[i] => active[i]}

\* A stop that clears the flag only when the instances stopped.
StopRunningOnOk(is_running, result) ==
    IF result = "ok" THEN FALSE ELSE is_running

\* stop: *is_running = false (lines 98-99), before the result is looked at.
StopRunning(is_running, result) == FALSE

\* instances().get(&instance_id) (lines 129-130, 167-168): 0 is an id the
\* container has no instance for.
InstanceIds == 0 .. NumInstances

(***************************************************************************)
(* The state machine: one chain and the calls made on it.                  *)
(***************************************************************************)
Init ==
    /\ pairs = New
    /\ accepted = <<>>
    /\ last = [op |-> "new"]
    /\ copy = None
    /\ hab = HabNew

\* The chain has not been moved away (see DoIntoIter).
Alive == last.op # "into_iter"

\* chain.push(&pair); a panic is recorded as the call's outcome and the
\* chain is what the unwinding leaves.
Push(pair) ==
    /\ Alive
    /\ Len(pairs) < MaxLen \/ ~PushAccepts(pairs, pair)
    /\ pairs' = PushResult(pairs, pair)
    /\ accepted' = IF PushAccepts(pairs, pair) THEN Append(accepted, pair)
                   ELSE accepted
    /\ last' = [op |-> "push", pair |-> pair,
                ret |-> IF PushAccepts(pairs, pair) THEN "ok" ELSE "panic"]
    /\ UNCHANGED <<copy, hab>>

\* chain.validate()
DoValidate ==
    /\ Alive
    /\ last' = [op |-> "validate", ret |-> Validate(pairs)]
    /\ UNCHANGED <<pairs, accepted, copy, hab>>

\* chain.get(header_hash)
DoGet(h) ==
    /\ Alive
    /\ last' = [op |-> "get", hash |-> h, ret |-> Get(pairs, h)]
    /\ UNCHANGED <<pairs, accepted, copy, hab>>

\* chain.get_entry(entry_hash)
DoGetEntry(h) ==
    /\ Alive
    /\ last' = [op |-> "get_entry", hash |-> h, ret |-> GetEntry(pairs, h)]
    /\ UNCHANGED <<pairs, accepted, copy, hab>>

\* chain.iter().collect()
DoIter ==
    /\ Alive
    /\ last' = [op |-> "iter", ret |-> Iter(pairs)]
    /\ UNCHANGED <<pairs, accepted, copy, hab>>

\* for p in &chain
DoIntoIterRef ==
    /\ Alive
    /\ last' = [op |-> "into_iter_ref", ret |-> IntoIterRef(pairs)]
    /\ UNCHANGED <<pairs, accepted, copy, hab>>

\* for p in chain.clone(): the clone is a temporary the loop consumes
DoIntoIterClone ==
    /\ Alive
    /\ last' = [op |-> "into_iter_clone", ret |-> IntoIter(CloneChain(pairs))]
    /\ UNCHANGED <<pairs, accepted, copy, hab>>

\* for p in chain: the chain is moved into the loop; no call can follow.
\* pairs keeps what the vector held when it was moved.
DoIntoIter ==
    /\ Alive
    /\ last' = [op |-> "into_iter", ret |-> IntoIter(pairs)]
    /\ UNCHANGED <<pairs, accepted, copy, hab>>

Next ==
    \/ \E pair \in Pairs : Push(pair)
    \/ DoValidate
    \/ \E h \in Hashes : DoGet(h)
    \/ \E h \in Hashes : DoGetEntry(h)
    \/ DoIter
    \/ DoIntoIterRef
    \/ DoIntoIterClone
    \/ DoIntoIter

Spec == Init /\ [][Next]_vars

(***************************************************************************)
(* A chain and a clone of it: c2 = c1.clone(), then pushes on either one.  *)
(* The pairs pushed are built as the tests build them, test_pair(previous, *)
(* content), on no pair or on the head of either chain.                    *)
(***************************************************************************)
\* The pairs seen through the clone.
CopyPairs == IF copy[1].at = "shared" THEN pairs ELSE copy[1].buf

CloneInputs ==
    LET prevs == {None, First(pairs)}
                    \cup (IF copy = None THEN {} ELSE {First(CopyPairs)})
    IN  {TestPair(prev, c) : prev \in prevs, c \in Contents}

\* let c2 = c1.clone()
DoClone ==
    /\ Alive
    /\ copy = None
    /\ copy' = Some(Clone(pairs))
    /\ last' = [op |-> "clone"]
    /\ UNCHANGED <<pairs, accepted, hab>>

\* c1.push(&pair)
PushOriginal(pair) ==
    /\ Len(pairs) < MaxCloneLen \/ ~PushAccepts(pairs, pair)
    /\ Push(pair)

\* c2.push(&pair): the push acts on the vector the clone's pairs live in.
PushCopy(pair) ==
    /\ Alive
    /\ copy # None
    /\ Len(CopyPairs) < MaxCloneLen \/ ~PushAccepts(CopyPairs, pair)
    /\ IF copy[1].at = "shared"
       THEN /\ pairs' = PushResult(pairs, pair)
            /\ copy' = copy
       ELSE /\ pairs' = pairs
            /\ copy' = Some([copy[1] EXCEPT
                                !.buf = PushResult(copy[1].buf, pair)])
    /\ last' = [op |-> "push_copy", pair |-> pair,
                ret |-> IF PushAccepts(CopyPairs, pair) THEN "ok" ELSE "panic"]
    /\ UNCHANGED <<accepted, hab>>

NextClone ==
    \/ DoClone
    \/ \E pair \in CloneInputs : PushOriginal(pair)
    \/ \E pair \in CloneInputs : PushCopy(pair)

SpecClone == Init /\ [][NextClone]_vars

(***************************************************************************)
(* validate as a function of the vector: it is applied to every vector of  *)
(* at most MaxAnyLen pairs, valid or not, as a SourceChain { pairs } built *)
(* inside the module would hold them.                                      *)
(***************************************************************************)
AnyChains == UNION {[1 .. n -> Pairs] : n \in 0 .. MaxAnyLen}

InitAny ==
    /\ pairs \in AnyChains
    /\ accepted = <<>>
    /\ last = [op |-> "given"]
    /\ copy = None
    /\ hab = HabNew

NextAny == DoValidate

SpecAny == InitAny /\ [][NextAny]_vars

(***************************************************************************)
(* The Habitat and the methods JavaScript calls on it.  Each method runs   *)
(* under cx.lock(), so the methods are atomic steps.                       *)
(***************************************************************************)
InitHabitat ==
    /\ pairs = New
    /\ accepted = <<>>
    /\ last = [op |-> "init"]
    /\ copy = None
    /\ hab = HabNew

\* start (lines 74-89): throws when start_all_instances returned Err.
Start(result) ==
    /\ \E a \in StartAll(hab.active, result) :
           hab' = [hab EXCEPT !.active = a]
    /\ last' = [op |-> "start", ret |-> IF result = "ok" THEN "ok" ELSE "throw"]
    /\ UNCHANGED <<pairs, accepted, copy>>

\* stop (lines 91-109): throws when stop_all_instances returned Err, after
\* the flag has been written.
Stop(result) ==
    /\ \E a \in StopAll(hab.active, result) :
           hab' = [hab EXCEPT !.active = a,
                              !.is_running = StopRunning(hab.is_running, result)]
    /\ last' = [op |-> "stop", ret |-> IF result = "ok" THEN "ok" ELSE "throw"]
    /\ UNCHANGED <<pairs, accepted, copy>>

\* call (lines 111-144): panics on an unknown instance id, throws when the
\* instance's call returned Err.
Call(instance_id, result) ==
    /\ last' = [op |-> "call", id |-> instance_id,
                ret |-> IF instance_id \notin Instances THEN "panic"
                        ELSE IF result = "ok" THEN "ok" ELSE "throw"]
    /\ UNCHANGED <<pairs, accepted, copy, hab>>

\* register_callback (lines 146-159): one more callback channel is sent to
\* the background task, or the send fails and expect panics.
RegisterCallback(result) ==
    /\ hab.callbacks < MaxCallbacks
    /\ hab' = [hab EXCEPT !.callbacks = IF result = "ok" THEN @ + 1 ELSE @]
    /\ last' = [op |-> "register_callback",
                ret |-> IF result = "ok" THEN "ok" ELSE "panic"]
    /\ UNCHANGED <<pairs, accepted, copy>>

\* agent_id (lines 161-182): panics on an unknown instance id, throws when
\* the instance has no state or no agent address.
AgentId(instance_id, result) ==
    /\ last' = [op |-> "agent_id", id |-> instance_id,
                ret |-> IF instance_id \notin Instances THEN "panic"
                        ELSE IF result = "ok" THEN "ok" ELSE "throw"]
    /\ UNCHANGED <<pairs, accepted, copy, hab>>

Results == {"ok", "err"}

NextHabitat ==
    \/ \E result \in Results : Start(result)
    \/ \E result \in Results : Stop(result)
    \/ \E instance_id \in InstanceIds, result \in Results :
           Call(instance_id, result)
    \/ \E result \in Results : RegisterCallback(result)
    \/ \E instance_id \in InstanceIds, result \in Results :
           AgentId(instance_id, result)

SpecHabitat == InitHabitat /\ [][NextHabitat]_vars

(***************************************************************************)
(* Properties of push.                                                     *)
(***************************************************************************)
IsPush(l) == l.op = "push"
Rejected(l) == l.op = "push" /\ l.ret = "panic"
Succeeded(l) == l.op = "push" /\ l.ret = "ok"
HeadHash(chain) == HeaderHash(chain[1].header)

\* C1: a push onto an empty chain of a pair whose header carries a previous
\* reference (whatever hash it names) is rejected and the chain stays empty.
C1_EmptyChainRejectsPrevious ==
    [][(pairs = <<>> /\ IsPush(last') /\ last'.pair.header.previous # None)
          => (Rejected(last') /\ pairs' = <<>>)]_vars

\* C2: a push onto a non-empty chain is accepted if and only if the pair
\* validates and its previous reference is present and equals the hash of
\* the header at the head.
\* The same is checked of push's test for every pair at every reachable chain.
C2_NonEmptyPushRule ==
    /\ [][(pairs # <<>> /\ IsPush(last'))
             => (Succeeded(last') <=>
                    (/\ PairValidate(last'.pair)
                     /\ last'.pair.header.previous = Some(HeadHash(pairs))))]_vars
    /\ [](pairs # <<>> =>
             \A p \in Pairs :
                 PushAccepts(pairs, p) <=>
                     (/\ PairValidate(p)
                      /\ p.header.previous = Some(HeadHash(pairs))))

\* C2 witness: a valid pair naming the hash of an older pair of the chain,
\* which is not the head's hash, has just been rejected.
C2_Witness ==
    /\ Rejected(last)
    /\ Len(pairs) >= 2
    /\ PairValidate(last.pair)
    /\ last.pair.header.previous = Some(HeaderHash(pairs[Len(pairs)].header))
    /\ HeaderHash(pairs[Len(pairs)].header) # HeadHash(pairs)

\* C3: the pair at the tail of every reachable chain (the genesis pair) has a
\* header with no previous reference.
C3_GenesisHasNoPrevious ==
    pairs # <<>> => pairs[Len(pairs)].header.previous = None

\* C4: for all adjacent positions i, i+1 of a reachable chain the previous
\* reference of the header at i is present and equals the hash of the header
\* at i+1.
C4_Linkage ==
    \A i \in 1 .. (Len(pairs) - 1) :
        pairs[i].header.previous = Some(HeaderHash(pairs[i + 1].header))

\* C4 witness: a chain of three pairs whose header hashes are not all equal.
C4_Witness ==
    /\ Len(pairs) >= 3
    /\ HeaderHash(pairs[1].header) # HeaderHash(pairs[2].header)
    /\ HeaderHash(pairs[2].header) # HeaderHash(pairs[3].header)

\* C5: a rejected push leaves the sequence of pairs exactly as it was.
C5_RejectedPushChangesNothing ==
    [][Rejected(last') => pairs' = pairs]_vars

\* C5 witness: pushes were accepted, then a valid pair with the wrong linkage
\* was rejected.
C5_Witness ==
    /\ Rejected(last)
    /\ Len(pairs) >= 2
    /\ PairValidate(last.pair)

\* C6: a successful push puts the pair in front of the old chain, which is
\* kept as it was; after N successful pushes the length is N and the head is
\* the pair pushed last.
C6_SuccessfulPush ==
    /\ [][Succeeded(last') => pairs' = <<last'.pair>> \o pairs]_vars
    /\ [](/\ Len(pairs) = Len(accepted)
          /\ pairs # <<>> => pairs[1] = accepted[Len(accepted)])

\* C6 witness: the third successful push has just been made.
C6_Witness ==
    /\ Succeeded(last)
    /\ Len(accepted) >= 3

IsSuffix(s, t) ==
    /\ Len(s) <= Len(t)
    /\ \A i \in 1 .. Len(s) : s[i] = t[Len(t) - Len(s) + i]

\* C7: across every call the old chain is a suffix (the genesis end) of the
\* new chain, and validate, get, get_entry and iter leave the chain as it is.
C7_AppendOnly ==
    [][/\ IsSuffix(pairs, pairs')
       /\ last'.op \in {"validate", "get", "get_entry", "iter"}
             => pairs' = pairs]_vars

\* C7 witness: three pushes were accepted and a lookup has just found a pair.
C7_Witness ==
    /\ Len(pairs) >= 3
    /\ last.op \in {"get", "get_entry"}
    /\ last.ret # None

\* C8: every pair of a reachable chain validates, so chain.validate() is
\* true in every reachable state.
C8_EveryPairValidates ==
    /\ \A i \in 1 .. Len(pairs) : PairValidate(pairs[i])
    /\ Validate(pairs)
    /\ last.op = "validate" => last.ret = TRUE
    /\ (IsPush(last) /\ ~PairValidate(last.pair)) => Rejected(last)

\* C8 witness: a pair that does not validate but names the head's hash has
\* just been rejected.
C8_Witness ==
    /\ Rejected(last)
    /\ pairs # <<>>
    /\ ~PairValidate(last.pair)
    /\ last.pair.header.previous = Some(HeadHash(pairs))

(***************************************************************************)
(* Properties of the lookups.                                              *)
(***************************************************************************)
Indices == 1 .. Len(accepted)

\* The pairs accepted after the i-th one.
Later(i) == (i + 1) .. Len(accepted)

C10_GetEntryReturnsThePair ==
    \A i \in Indices :
        GetEntry(pairs, EntryHash(accepted[i].entry)) = Some(accepted[i])

\* C10 as amended: for every pair P push has accepted, get_entry(hash of
\* P's entry) returns a pair of the chain whose entry has that hash, and it
\* returns P itself whenever no pair accepted after P carries an entry with
\* the same hash.
C10_GetEntryReturnsNearestMatch ==
    \A i \in Indices :
        LET h == EntryHash(accepted[i].entry)
            r == GetEntry(pairs, h)
        IN  /\ r # None
            /\ EntryHash(r[1].entry) = h
            /\ \E k \in 1 .. Len(pairs) : pairs[k] = r[1]
            /\ (\A j \in Later(i) : EntryHash(accepted[j].entry) # h)
                  => r = Some(accepted[i])

\* C10 witness: the chain holds two pairs carrying entries with the same
\* content, as the test iter builds them ("foo", "bar", "foo").
C10_Witness ==
    \E foo, bar \in Contents :
        LET p1 == TestPair(None, foo)
            p2 == TestPair(Some(p1), bar)
            p3 == TestPair(Some(p2), foo)
        IN  /\ foo # bar
            /\ accepted = <<p1, p2, p3>>
            /\ pairs = <<p3, p2, p1>>

\* No pair of the chain has a header, or an entry, with hash h.
NoHeaderHash(chain, h) ==
    \A i \in 1 .. Len(chain) : HeaderHash(chain[i].header) # h
NoEntryHash(chain, h) ==
    \A i \in 1 .. Len(chain) : EntryHash(chain[i].entry) # h

\* C11: get(h) is None exactly when no pair of the chain has header hash h,
\* get_entry(h) is None exactly when no pair has entry hash h, on the empty
\* chain too; a miss is the call's value and leaves the chain as it was.
C11_LookupMiss ==
    /\ [](\A h \in Hashes :
             /\ Get(pairs, h) = None <=> NoHeaderHash(pairs, h)
             /\ GetEntry(pairs, h) = None <=> NoEntryHash(pairs, h))
    /\ [](/\ last.op = "get" =>
                (last.ret = None <=> NoHeaderHash(pairs, last.hash))
          /\ last.op = "get_entry" =>
                (last.ret = None <=> NoEntryHash(pairs, last.hash)))
    /\ [][(last'.op \in {"get", "get_entry"} /\ last'.ret = None)
             => pairs' = pairs]_vars

\* C11 witness: a get on a chain of two pairs has just missed.
C11_Witness ==
    /\ last.op = "get"
    /\ last.ret = None
    /\ Len(pairs) >= 2

(***************************************************************************)
(* Properties of the traversals.                                           *)
(***************************************************************************)
Rev(s) == [i \in 1 .. Len(s) |-> s[Len(s) + 1 - i]]

Traversals == {"iter", "into_iter_ref", "into_iter_clone", "into_iter"}

\* C12: after the pairs P1, ..., Pn were accepted in this order every
\* traversal yields Pn, ..., P1; iter(), iteration over &chain and into_iter
\* (of the chain or of a clone) yield the same sequence, and a non-consuming
\* traversal that follows another one yields the same sequence again.
C12_Traversal ==
    /\ [](/\ Iter(pairs) = Rev(accepted)
          /\ IntoIterRef(pairs) = Iter(pairs)
          /\ IntoIter(pairs) = Iter(pairs)
          /\ IntoIter(CloneChain(pairs)) = Iter(pairs)
          /\ last.op \in Traversals => last.ret = Rev(accepted))
    /\ [][(/\ last.op \in {"iter", "into_iter_ref"}
           /\ last'.op \in {"iter", "into_iter_ref"})
             => last'.ret = last.ret]_vars

\* C12 witness: three different pairs were accepted and a clone of the
\* chain has just been traversed by value.
C12_Witness ==
    /\ last.op = "into_iter_clone"
    /\ Len(accepted) >= 3
    /\ accepted[1] # accepted[2]
    /\ accepted[2] # accepted[3]
    /\ accepted[1] # accepted[3]

(***************************************************************************)
(* Properties of validate (checked under SpecAny).                         *)
(***************************************************************************)
AllValidate(chain) == \A i \in 1 .. Len(chain) : PairValidate(chain[i])

\* C13: chain.validate() is true if and only if every pair held validates,
\* so one invalid pair anywhere makes it false; a new chain has length zero
\* and validates.
C13_ValidateIsConjunction ==
    /\ Validate(pairs) <=> AllValidate(pairs)
    /\ last.op = "validate" => (last.ret <=> AllValidate(pairs))
    /\ Len(New) = 0
    /\ Validate(New)

\* C13 witness: validate has just returned false for a vector whose only
\* invalid pair is at the head.
C13_Witness ==
    /\ last.op = "validate"
    /\ last.ret = FALSE
    /\ Len(pairs) >= 2
    /\ ~PairValidate(pairs[1])
    /\ \A i \in 2 .. Len(pairs) : PairValidate(pairs[i])

(***************************************************************************)
(* First-match semantics of the lookups.                                   *)
(***************************************************************************)
\* Position k is the first one from the head whose header (entry) hash is h.
FirstHeaderMatch(chain, h, k) ==
    /\ HeaderHash(chain[k].header) = h
    /\ \A j \in 1 .. (k - 1) : HeaderHash(chain[j].header) # h
FirstEntryMatch(chain, h, k) ==
    /\ EntryHash(chain[k].entry) = h
    /\ \A j \in 1 .. (k - 1) : EntryHash(chain[j].entry) # h

\* C14: when one or more pairs of the chain match the requested hash, get
\* and get_entry return the matching pair closest to the head.
C14_FirstMatch ==
    /\ \A h \in Hashes : \A k \in 1 .. Len(pairs) :
          /\ FirstHeaderMatch(pairs, h, k) => Get(pairs, h) = Some(pairs[k])
          /\ FirstEntryMatch(pairs, h, k) => GetEntry(pairs, h) = Some(pairs[k])
    /\ \A k \in 1 .. Len(pairs) :
          /\ (last.op = "get" /\ FirstHeaderMatch(pairs, last.hash, k))
                => last.ret = Some(pairs[k])
          /\ (last.op = "get_entry" /\ FirstEntryMatch(pairs, last.hash, k))
                => last.ret = Some(pairs[k])

\* C14 witness: two different pairs of the chain have the header hash that
\* get was asked for, and get has returned the one nearer the head.
C14_Witness ==
    /\ last.op = "get"
    /\ \E j, k \in 1 .. Len(pairs) :
          /\ j < k
          /\ pairs[j] # pairs[k]
          /\ FirstHeaderMatch(pairs, last.hash, j)
          /\ HeaderHash(pairs[k].header) = last.hash
          /\ last.ret = Some(pairs[j])

(***************************************************************************)
(* Properties of clone (checked under SpecClone).                          *)
(***************************************************************************)
\* C15: a clone starts with the pairs of the chain it was cloned from; from
\* then on a push on the clone, accepted or rejected, leaves the original
\* as it was, a push on the original leaves the clone as it was, and so does
\* whatever the caller does after a push with the pair it passed in: only
\* an accepted push on a chain changes that chain.
C15_CloneIsIndependent ==
    [][/\ last'.op = "clone" => (CopyPairs' = pairs /\ pairs' = pairs)
       /\ last'.op = "push_copy" => pairs' = pairs
       /\ (last'.op = "push" /\ copy # None) => CopyPairs' = CopyPairs
       /\ ~Succeeded(last') => pairs' = pairs]_vars

\* C15 witness: the chain was cloned when it held a pair, and then a
\* different pair was accepted on each of the two.
C15_Witness ==
    /\ copy # None
    /\ Len(pairs) >= 2
    /\ Len(CopyPairs) >= 2
    /\ pairs[1] # CopyPairs[1]
    /\ pairs[Len(pairs)] = CopyPairs[Len(CopyPairs)]

(***************************************************************************)
(* No replay.                                                              *)
(***************************************************************************)
HeadersOf(chain) == {chain[i].header : i \in 1 .. Len(chain)}

\* Different headers of S have different hashes.
CollisionFree(S) ==
    \A a, b \in S : HeaderHash(a) = HeaderHash(b) => a = b

\* Header a names the hash of header b as its previous one.
Names(a, b) == a.previous = Some(HeaderHash(b))

\* The headers of S named, in one step or more (at most n), from those of X.
RECURSIVE NamedFrom(_, _, _)
NamedFrom(S, X, n) ==
    IF n = 0 THEN {}
    ELSE LET Y == {b \in S : \E a \in X : Names(a, b)}
         IN  Y \cup NamedFrom(S, Y, n - 1)

\* No header of S names its own hash, directly or through the headers it
\* references.
NoSelfNaming(S) ==
    \A a \in S : a \notin NamedFrom(S, {a}, Cardinality(S))

\* The assumption of C16, on the headers of the chain.
HashesAreSound(chain) ==
    /\ CollisionFree(HeadersOf(chain))
    /\ NoSelfNaming(HeadersOf(chain))

NoDuplicate(chain) ==
    \A i, j \in 1 .. Len(chain) : chain[i] = chain[j] => i = j

\* C16: if the header hashes of the chain are collision-free and no header
\* names its own hash, directly or through the headers it references, then
\* no pair is at two positions of the chain, and a push of the head or of
\* any older pair of the chain is rejected.
C16_NoReplay ==
    HashesAreSound(pairs) =>
        /\ NoDuplicate(pairs)
        /\ \A k \in 1 .. Len(pairs) : ~PushAccepts(pairs, pairs[k])

\* C16 witness: on a chain of three pairs with sound hashes, a push of a
\* pair of the chain that is not the head has just been rejected.
C16_Witness ==
    /\ HashesAreSound(pairs)
    /\ Len(pairs) >= 3
    /\ Rejected(last)
    /\ \E k \in 2 .. Len(pairs) : last.pair = pairs[k]

(***************************************************************************)
(* The Habitat's running flag.                                             *)
(***************************************************************************)
\* C17: is_running is true in a newly constructed Habitat; after stop() it
\* is false, whether stopping the instances succeeded or returned an error;
\* once it is false no method (start, stop, call, register_callback,
\* agent_id) makes it true again.
C17_RunningIsALatch ==
    /\ [](last.op = "init" => hab.is_running)
    /\ [][last'.op = "stop" => ~hab'.is_running]_vars
    /\ [][~hab.is_running => ~hab'.is_running]_vars

\* C17 witness: a start() that succeeded after a stop(): every
\* instance runs again and is_running is still false.
C17_Witness ==
    /\ last.op = "start"
    /\ last.ret = "ok"
    /\ \A i \in Instances : hab.active[i]
    /\ ~hab.is_running

=============================================================================
